---- MODULE Spec2Model ----
(***************************************************************************)
(* Remote command execution core of basicore:                              *)
(*   basicore/remote/remote_command.py  RemoteResults, RemoteConnection,   *)
(*                                      RemoteCommand                      *)
(*   basicore/parameters/config_ssh.py  SSHConfig.__repr__                 *)
(*   basicore/remote/remote_dir_actions.py   RemoteDirActions              *)
(*   basicore/remote/remote_file_actions.py  RemoteFileActions             *)
(*   universal/remote/remote_command.py      RemoteCommand.execute         *)
(*   universal/remote/remote_dir_actions.py  RemoteDirActions.exists       *)
(* Python strings are TLA+ strings; the transport library (paramiko, scp)  *)
(* is the environment: its outcomes are the inputs of the actions.         *)
(***************************************************************************)
EXTENDS Integers, Sequences, FiniteSets, TLC

VARIABLES
    auth,           \* RemoteConnection.authentication (an SSHConfig)
    ctor,           \* outcome of RemoteConnection.__init__: "none" before it ran
    conn,           \* RemoteConnection.conn: 0 is None, n > 0 the n-th SSHClient object
    error_message,  \* RemoteConnection.error_message
    clients,        \* number of paramiko.SSHClient objects created so far
    handshakes,     \* number of SSHClient.connect calls made so far
    authed,         \* the SSHClient objects that hold an authenticated session
    dispatched,     \* number of commands sent over a session
    pc,             \* "idle", or "wait" inside exec_command's polling loop
    cur,            \* the execute call in progress
    chan,           \* the remote process of the dispatched command
    calls,          \* number of operations invoked on the connection
    last,           \* outcome of the last operation that returned or raised
    probe,          \* a hand-built RemoteResults and its finalization
    act             \* a call made against a stubbed layer below, and its outcome

vars == <<auth, ctor, conn, error_message, clients, handshakes, authed, dispatched,
          pc, cur, chan, calls, last, probe, act>>

connVars == <<auth, ctor, conn, error_message, clients, handshakes, authed, dispatched,
              pc, cur, chan, calls, last>>

\* ------------------------------------------------------------------ bounds
MaxCalls == 3
MaxPolls == 2

\* ------------------------------------------------------------------ strings
Lowers == <<"a","b","c","d","e","f","g","h","i","j","k","l","m",
            "n","o","p","q","r","s","t","u","v","w","x","y","z">>
Uppers == <<"A","B","C","D","E","F","G","H","I","J","K","L","M",
            "N","O","P","Q","R","S","T","U","V","W","X","Y","Z">>

UpperTable == [c \in {Lowers[i] : i \in 1..26} |->
                  Uppers[CHOOSE i \in 1..26 : Lowers[i] = c]]

UpperChar(c) == IF c \in DOMAIN UpperTable THEN UpperTable[c] ELSE c

\* str.upper() on ASCII text, character by character.
RECURSIVE upper(_)
upper(s) ==
    IF Len(s) = 0 THEN ""
    ELSE IF Len(s) = 1 THEN UpperChar(s)
    ELSE LET h == Len(s) \div 2 IN
         upper(SubSeq(s, 1, h)) \o upper(SubSeq(s, h + 1, Len(s)))

\* Python's `t in s`
Contains(s, t) ==
    \E i \in 1..(Len(s) - Len(t) + 1) : SubSeq(s, i, i + Len(t) - 1) = t

Whitespace == {" ", "\n", "\t", "\r"}

RECURSIVE lstrip(_)
lstrip(s) ==
    IF s # "" /\ SubSeq(s, 1, 1) \in Whitespace
    THEN lstrip(SubSeq(s, 2, Len(s)))
    ELSE s

RECURSIVE rstrip(_)
rstrip(s) ==
    IF s # "" /\ SubSeq(s, Len(s), Len(s)) \in Whitespace
    THEN rstrip(SubSeq(s, 1, Len(s) - 1))
    ELSE s

strip(s) == rstrip(lstrip(s))

startswith(s, p) == Len(s) >= Len(p) /\ SubSeq(s, 1, Len(p)) = p

endswith(s, p) == Len(s) >= Len(p) /\ SubSeq(s, Len(s) - Len(p) + 1, Len(s)) = p

\* Position of the first character of s that is in seps, 0 if there is none.
FirstOf(s, seps) ==
    LET idx == { i \in 1..Len(s) : SubSeq(s, i, i) \in seps } IN
    IF idx = {} THEN 0 ELSE CHOOSE i \in idx : \A j \in idx : i <= j

\* str.split(sep) for a one-character separator: empty pieces are kept.
RECURSIVE split_on(_, _)
split_on(s, sep) ==
    LET i == FirstOf(s, {sep}) IN
    IF i = 0 THEN <<s>>
    ELSE <<SubSeq(s, 1, i - 1)>> \o split_on(SubSeq(s, i + 1, Len(s)), sep)

\* str.split() without arguments: runs of whitespace separate the fields, and
\* leading and trailing whitespace yields no field.
RECURSIVE split(_)
split(s) ==
    LET t == lstrip(s)
        i == FirstOf(t, Whitespace)
    IN IF t = "" THEN <<>>
       ELSE IF i = 0 THEN <<t>>
       ELSE <<SubSeq(t, 1, i - 1)>> \o split(SubSeq(t, i + 1, Len(t)))

\* str.join
RECURSIVE join(_, _)
join(sep, parts) ==
    IF Len(parts) = 0 THEN ""
    ELSE IF Len(parts) = 1 THEN parts[1]
    ELSE parts[1] \o sep \o join(sep, Tail(parts))

DigitVal == ("0" :> 0) @@ ("1" :> 1) @@ ("2" :> 2) @@ ("3" :> 3) @@ ("4" :> 4) @@
            ("5" :> 5) @@ ("6" :> 6) @@ ("7" :> 7) @@ ("8" :> 8) @@ ("9" :> 9)

\* The texts of decimal digits, on which int() does not raise ValueError.
IsDigits(s) == s # "" /\ \A i \in 1..Len(s) : SubSeq(s, i, i) \in DOMAIN DigitVal

\* int(s) for a text of decimal digits.
RECURSIVE int(_)
int(s) ==
    IF Len(s) = 0 THEN 0
    ELSE int(SubSeq(s, 1, Len(s) - 1)) * 10 + DigitVal[SubSeq(s, Len(s), Len(s))]

\* os.path.join(a, b) on POSIX paths.
os_path_join(a, b) ==
    IF startswith(b, "/") THEN b
    ELSE IF a = "" \/ endswith(a, "/") THEN a \o b
    ELSE a \o "/" \o b

\* ------------------------------------------------------------------ SSHConfig
SSHConfig_repr_leaky(a) ==
    "SSHConfig(" \o "remote_server=" \o a.remote_server \o ","
                 \o "ssh_user=" \o a.ssh_user \o ","
                 \o "ssh_pswd=" \o a.ssh_pswd \o ","
                 \o "ssh_port=" \o a.ssh_port \o ","
                 \o "remote_dir=" \o a.remote_dir \o ")"

SSHConfig_repr(a) ==
    "SSHConfig(" \o "remote_server=" \o a.remote_server \o ","
                 \o "ssh_user=" \o a.ssh_user \o ","
                 \o "ssh_pswd=<private>,"
                 \o "ssh_port=" \o a.ssh_port \o ","
                 \o "remote_dir=" \o a.remote_dir \o ")"

AuthSet ==
    { [remote_server |-> "example.com", ssh_user |-> "user", ssh_pswd |-> "pass",
       ssh_port |-> "22", remote_dir |-> "/home/user"],
      [remote_server |-> "localhost", ssh_user |-> "root", ssh_pswd |-> "hunter2",
       ssh_port |-> "2222", remote_dir |-> "None"] }

\* ------------------------------------------------------------------ RemoteResults
RemoteResults(command, command_id) ==
    [command |-> command, command_id |-> command_id, stdout |-> "", stderr |-> "",
     exit_code |-> -1, errors |-> FALSE, success |-> FALSE, completion |-> FALSE]

determine_errors_stdout_only(r) ==
    IF Contains(upper(r.stdout), "ERROR") THEN [r EXCEPT !.errors = TRUE] ELSE r

determine_errors(r) ==
    IF Contains(upper(r.stdout), "ERROR") THEN [r EXCEPT !.errors = TRUE]
    ELSE IF Contains(upper(r.stderr), "ERROR") THEN [r EXCEPT !.errors = TRUE]
    ELSE r

determine_success_exit_only(r) ==
    LET e == determine_errors(r) IN
    IF e.exit_code # 0 THEN [e EXCEPT !.success = FALSE]
    ELSE [e EXCEPT !.success = TRUE]

determine_success(r) ==
    LET e == determine_errors(r) IN
    IF e.errors \/ e.exit_code # 0 THEN [e EXCEPT !.success = FALSE]
    ELSE [e EXCEPT !.success = TRUE]

\* ------------------------------------------------------------------ environment
\* Outcome of SSHClient.connect: it returns, or raises AuthenticationException,
\* SSHException, socket.timeout or socket.error.
Handshake == {"ok", "AuthenticationException", "SSHException", "timeout", "error"}
\* The exceptions exec_command and scp catch.
Transport == {"SSHException", "timeout", "error"}

ExcText(e) ==
    CASE e = "SSHException" -> "Channel closed."
      [] e = "timeout"      -> "timed out"
      [] OTHER              -> "Connection reset by peer"

WaitError(e) ==
    CASE e = "SSHException" -> "ERROR: SSH error while waiting for command to finish: " \o ExcText(e)
      [] e = "timeout"      -> "ERROR: Socket timed out while waiting for command to finish. " \o ExcText(e)
      [] OTHER              -> "ERROR: Socket error while waiting for command to finish: " \o ExcText(e)

Commands == {"echo hello", "./job.sh"}
CommandIds == {"1"}
Statuses == {0, 1, -1}
Outputs == {"", "Error: disk full\n"}
ErrOutputs == {"", "some error\n"}
\* What the remote process of a command does once it runs: its exit status
\* (-1 when the server supplies none) and the bytes it writes to both streams.
Behaviour(command) ==
    IF command = "echo hello"
    THEN {[status |-> 0, out |-> "hello\n", err |-> ""]}
    ELSE [status : Statuses, out : Outputs, err : ErrOutputs]
NoPlan == [status |-> -1, out |-> "", err |-> ""]
\* The handshake outcomes a connect() call can meet: none is made on a
\* connection that holds a client.
Outcomes == IF conn = 0 THEN Handshake ELSE {"none"}

\* ------------------------------------------------------------------ RemoteConnection
\* connect(): the values of the connection after the call, what it returned
\* (ret) or raised; o is the outcome of the handshake, made only if conn is None.
connect_noguard(o) ==
    LET id == clients + 1 IN
    CASE o = "ok" ->
           [conn |-> id, error_message |-> error_message, clients |-> id,
            handshakes |-> handshakes + 1, authed |-> authed \cup {id},
            ret |-> TRUE, raised |-> "none", hs |-> o]
      [] o = "AuthenticationException" ->
           [conn |-> 0,
            error_message |-> "ERROR: Failed to log in to remote server. " \o SSHConfig_repr(auth),
            clients |-> id, handshakes |-> handshakes + 1, authed |-> authed,
            ret |-> FALSE, raised |-> "none", hs |-> o]
      [] OTHER ->
           [conn |-> id, error_message |-> error_message, clients |-> id,
            handshakes |-> handshakes + 1, authed |-> authed,
            ret |-> FALSE, raised |-> o, hs |-> o]

connect(o) ==
    IF conn # 0
    THEN [conn |-> conn, error_message |-> error_message, clients |-> clients,
          handshakes |-> handshakes, authed |-> authed,
          ret |-> FALSE, raised |-> "none", hs |-> "none"]
    ELSE connect_noguard(o)

NoTuple == <<"", "", "", -1>>

NoLast ==
    [op |-> "none", raised |-> "none", ret |-> FALSE, hs |-> "none", had |-> FALSE,
     sent |-> FALSE, observed |-> FALSE, tup |-> NoTuple,
     res |-> RemoteResults("", "")]

NoCur == [command |-> "", command_id |-> "", hs |-> "none", had |-> FALSE, polls |-> 0]

NoChan == [ready |-> FALSE, plan |-> NoPlan]

NoProbe == [before |-> RemoteResults("", ""), r |-> RemoteResults("", ""), done |-> FALSE]

NoAct == [op |-> "none"]

\* exec_command when connect() returned False: empty stdin and stdout, the
\* connection's error message as stderr, and the initial exit status.
not_connected_status0(msg) == <<"", "", msg, 0>>

not_connected(msg) == <<"", "", msg, -1>>

\* exec_command's last statement: the connection's error message is appended to
\* a non-empty stderr text, and replaces an empty one.
fold_stderr(stderr, msg) ==
    IF stderr # "" THEN stderr \o "\n >" \o msg ELSE msg

\* ------------------------------------------------------------------ RemoteCommand
\* RemoteCommand.execute from the tuple exec_command returned.
execute_result_incomplete(command, command_id, tup) ==
    determine_success(
        [RemoteResults(command, command_id) EXCEPT
            !.stdout = tup[2], !.stderr = tup[3], !.exit_code = tup[4],
            !.completion = (tup[4] # -1)])

execute_result_swapped(command, command_id, tup) ==
    determine_success(
        [RemoteResults(command, command_id) EXCEPT
            !.stdout = tup[3], !.stderr = tup[2], !.exit_code = tup[4],
            !.completion = TRUE])

execute_result(command, command_id, tup) ==
    determine_success(
        [RemoteResults(command, command_id) EXCEPT
            !.stdout = tup[2], !.stderr = tup[3], !.exit_code = tup[4],
            !.completion = TRUE])

\* RemoteCommand.scp on a connection whose session is live; o is the outcome of
\* the copy: "ok", or one of the exceptions scp catches.
scp_result_completes(source, destination, put, o) ==
    LET r0 == RemoteResults("scp " \o source \o " " \o destination,
                            IF put THEN "scp_put" ELSE "scp_get")
        r1 == IF o = "ok"
              THEN [r0 EXCEPT !.exit_code = 0, !.completion = TRUE]
              ELSE [r0 EXCEPT !.stderr = WaitError(o), !.completion = TRUE]
    IN determine_success(r1)

scp_result(source, destination, put, o) ==
    LET r0 == RemoteResults("scp " \o source \o " " \o destination,
                            IF put THEN "scp_put" ELSE "scp_get")
        r1 == IF o = "ok"
              THEN [r0 EXCEPT !.exit_code = 0, !.completion = TRUE]
              ELSE [r0 EXCEPT !.stderr = WaitError(o)]
        r2 == IF conn = 0
              THEN [r1 EXCEPT !.stderr = "ERROR: Failed to log in to remote server. "
                                          \o SSHConfig_repr(auth)]
              ELSE r1
    IN determine_success(r2)

Alive == ctor \in {"ok", "AuthenticationException"}

\* ------------------------------------------------------------------ actions
\* RemoteConnection.__init__: stores the configuration and connects.
Construct ==
    /\ ctor = "none"
    /\ \E o \in Outcomes :
       LET c == connect(o) IN
       /\ ctor' = o
       /\ conn' = c.conn
       /\ error_message' = c.error_message
       /\ clients' = c.clients
       /\ handshakes' = c.handshakes
       /\ authed' = c.authed
       /\ last' = [NoLast EXCEPT !.op = "init", !.raised = c.raised, !.ret = c.ret,
                                 !.hs = c.hs]
    /\ UNCHANGED <<auth, dispatched, pc, cur, chan, calls, probe, act>>

\* A caller's ssh.connect().
ConnectCall ==
    /\ Alive /\ pc = "idle" /\ calls < MaxCalls
    /\ \E o \in Outcomes :
       LET c == connect(o) IN
       /\ conn' = c.conn
       /\ error_message' = c.error_message
       /\ clients' = c.clients
       /\ handshakes' = c.handshakes
       /\ authed' = c.authed
       /\ last' = [NoLast EXCEPT !.op = "connect", !.raised = c.raised, !.ret = c.ret,
                                 !.hs = c.hs, !.had = (conn # 0)]
    /\ calls' = calls + 1
    /\ UNCHANGED <<auth, ctor, dispatched, pc, cur, chan, probe, act>>

\* RemoteCommand.execute(command, command_id, ssh) up to the dispatch of the
\* command: exec_command connects (o: the handshake's outcome), returns at once
\* if connect() returned False, and otherwise sends the command (d: it is sent,
\* or conn.exec_command raises); p is what the remote process then does.
ExecuteCall(command, command_id) ==
    /\ Alive /\ pc = "idle" /\ calls < MaxCalls
    /\ calls' = calls + 1
    /\ \E o \in Outcomes :
       LET c == connect(o)
           info == [NoLast EXCEPT !.op = "execute", !.hs = c.hs, !.had = (conn # 0),
                                  !.ret = c.ret]
       IN
       /\ conn' = c.conn
       /\ clients' = c.clients
       /\ handshakes' = c.handshakes
       /\ authed' = c.authed
       /\ IF c.raised # "none"
          THEN \* the handshake's exception leaves exec_command and execute
               /\ error_message' = c.error_message
               /\ last' = [info EXCEPT !.raised = c.raised]
               /\ UNCHANGED <<dispatched, pc, cur, chan>>
          ELSE IF ~c.ret
          THEN /\ error_message' = c.error_message
               /\ LET tup == not_connected(c.error_message) IN
                  last' = [info EXCEPT !.tup = tup,
                                       !.res = execute_result(command, command_id, tup)]
               /\ UNCHANGED <<dispatched, pc, cur, chan>>
          ELSE \/ \E d \in Transport :
                  /\ error_message' = WaitError(d)
                  /\ LET tup == <<"", "", fold_stderr("", WaitError(d)), -1>> IN
                     last' = [info EXCEPT !.tup = tup,
                                          !.res = execute_result(command, command_id, tup)]
                  /\ UNCHANGED <<dispatched, pc, cur, chan>>
               \/ \E p \in Behaviour(command) :
                  /\ error_message' = c.error_message
                  /\ dispatched' = dispatched + 1
                  /\ pc' = "wait"
                  /\ cur' = [command |-> command, command_id |-> command_id,
                             hs |-> c.hs, had |-> (conn # 0), polls |-> 0]
                  /\ chan' = [ready |-> FALSE, plan |-> p]
                  /\ last' = [info EXCEPT !.op = "pending", !.sent = TRUE]
    /\ UNCHANGED <<auth, ctor, probe, act>>

\* The remote process ends and posts its exit status.
RemoteExit ==
    /\ pc = "wait" /\ ~chan.ready
    /\ chan' = [chan EXCEPT !.ready = TRUE]
    /\ UNCHANGED <<auth, ctor, conn, error_message, clients, handshakes, authed,
                   dispatched, pc, cur, calls, last, probe, act>>

\* One iteration of the loop with no exit status ready: time.sleep(20).
PollSleep ==
    /\ pc = "wait" /\ ~chan.ready
    /\ cur' = [cur EXCEPT !.polls = IF @ < MaxPolls THEN @ + 1 ELSE @]
    /\ UNCHANGED <<auth, ctor, conn, error_message, clients, handshakes, authed,
                   dispatched, pc, chan, calls, last, probe, act>>

\* One iteration with the exit status ready: recv_exit_status(); the loop ends
\* unless the status read is -1; then both streams are read, decoded and
\* stripped, and execute finalizes the result.
PollRecv ==
    /\ pc = "wait" /\ chan.ready
    /\ IF chan.plan.status = -1
       THEN /\ cur' = [cur EXCEPT !.polls = IF @ < MaxPolls THEN @ + 1 ELSE @]
            /\ UNCHANGED <<pc, chan, last>>
       ELSE /\ LET tup == <<"<stdin>", strip(chan.plan.out),
                            fold_stderr(strip(chan.plan.err), error_message),
                            chan.plan.status>>
               IN last' = [NoLast EXCEPT !.op = "execute", !.hs = cur.hs, !.had = cur.had,
                                         !.ret = TRUE, !.sent = TRUE, !.observed = TRUE,
                                         !.tup = tup,
                                         !.res = execute_result(cur.command,
                                                                cur.command_id, tup)]
            /\ pc' = "idle"
            /\ cur' = NoCur
            /\ chan' = NoChan
    /\ UNCHANGED <<auth, ctor, conn, error_message, clients, handshakes, authed,
                   dispatched, calls, probe, act>>

\* A transport exception raised while waiting or reading, after the dispatch:
\* the except clause records the message; stdout and stderr are still the
\* channel's file objects, so `stderr + "\n >" + ...` raises TypeError, which
\* leaves exec_command and execute.
TransportFail(e) ==
    /\ pc = "wait"
    /\ error_message' = WaitError(e)
    /\ last' = [NoLast EXCEPT !.op = "execute", !.hs = cur.hs, !.had = cur.had,
                              !.ret = TRUE, !.sent = TRUE,
                              !.raised = "TypeError"]
    /\ pc' = "idle"
    /\ cur' = NoCur
    /\ chan' = NoChan
    /\ UNCHANGED <<auth, ctor, conn, clients, handshakes, authed, dispatched, calls, probe, act>>

Sources == {"/tmp/a"}
Destinations == {"/data/a"}
ScpOutcome == {"ok", "SSHException", "timeout", "error", "SCPException"}

\* RemoteCommand.scp(source, destination, ssh, put).
ScpCall(source, destination, put) ==
    /\ Alive /\ pc = "idle" /\ calls < MaxCalls
    /\ calls' = calls + 1
    /\ LET info == [NoLast EXCEPT !.op = "scp", !.had = (conn # 0)] IN
       IF conn \notin authed
       THEN \* ssh.conn is None, or a client that never connected (its
            \* transport is None): AttributeError, which scp does not catch
            last' = [info EXCEPT !.raised = "AttributeError"]
       ELSE \E o \in ScpOutcome :
            IF o = "SCPException"
            THEN last' = [info EXCEPT !.raised = "SCPException"]
            ELSE last' = [info EXCEPT !.sent = TRUE, !.observed = (o = "ok"),
                                      !.res = scp_result(source, destination, put, o)]
    /\ UNCHANGED <<auth, ctor, conn, error_message, clients, handshakes, authed,
                   dispatched, pc, cur, chan, probe, act>>

Init ==
    /\ auth \in AuthSet
    /\ ctor = "none"
    /\ conn = 0
    /\ error_message = ""
    /\ clients = 0
    /\ handshakes = 0
    /\ authed = {}
    /\ dispatched = 0
    /\ pc = "idle"
    /\ cur = NoCur
    /\ chan = NoChan
    /\ calls = 0
    /\ last = NoLast
    /\ probe = NoProbe
    /\ act = NoAct

\* ------------------------------------------------------------------ finalization alone
\* determine_success applied to a result built by hand: every combination of
\* completion, exit_code, stdout and stderr on a fresh RemoteResults.
TextWithError == {"error", "ERROR: disk full", "An Error occurred", "xxeRRoRxx"}
TextWithoutError == {"", "hello", "erro r", "ERR", "err\nor", "rorre"}
Texts == TextWithError \cup TextWithoutError

HandBuilt ==
    { [RemoteResults("ls", "1") EXCEPT !.stdout = so, !.stderr = se,
                                       !.exit_code = x, !.completion = k] :
        so \in Texts, se \in Texts, x \in Statuses, k \in BOOLEAN }

Finalize ==
    /\ ~probe.done
    /\ probe' = [probe EXCEPT !.r = determine_success(probe.before), !.done = TRUE]
    /\ UNCHANGED <<connVars, act>>

InitFinalize ==
    /\ auth \in AuthSet
    /\ ctor = "none"
    /\ conn = 0
    /\ error_message = ""
    /\ clients = 0
    /\ handshakes = 0
    /\ authed = {}
    /\ dispatched = 0
    /\ pc = "idle"
    /\ cur = NoCur
    /\ chan = NoChan
    /\ calls = 0
    /\ last = NoLast
    /\ probe \in { [before |-> r, r |-> r, done |-> FALSE] : r \in HandBuilt }
    /\ act = NoAct

NextFinalize == Finalize

SpecFinalize == InitFinalize /\ [][NextFinalize]_vars

\* ------------------------------------------------------------------ calls on a stubbed layer
\* The unit tests call each layer with the layer below it replaced by a stub
\* that returns a prepared value; act holds one such call and its outcome.

\* What a stubbed exec_command returns: (stdin, stdout, stderr, exit status).
MockTuples == { <<"<stdin>", so, se, x>> : so \in Texts, se \in Texts, x \in Statuses }

\* RemoteCommand.execute(command, command_id, ssh) on a connection whose
\* exec_command is a stub.
ExecuteOnStub(command, command_id) ==
    /\ act.op = "none"
    /\ \E tup \in MockTuples :
         act' = [op |-> "execute", command |-> command, command_id |-> command_id,
                 tup |-> tup, res |-> execute_result(command, command_id, tup)]
    /\ UNCHANGED <<connVars, probe>>

\* What a stubbed RemoteCommand.execute returns: the flags the callers read, and
\* stdout.  The flag combinations are those of finalized results and of results
\* that did not complete.
MockFlags ==
    { [completion |-> TRUE,  success |-> TRUE,  errors |-> FALSE],
      [completion |-> TRUE,  success |-> FALSE, errors |-> FALSE],
      [completion |-> TRUE,  success |-> FALSE, errors |-> TRUE],
      [completion |-> FALSE, success |-> FALSE, errors |-> FALSE],
      [completion |-> FALSE, success |-> FALSE, errors |-> TRUE] }

MockResult(f, out) ==
    [completion |-> f.completion, success |-> f.success, errors |-> f.errors,
     stdout |-> out]

NoResult == [completion |-> FALSE, success |-> FALSE, errors |-> FALSE, stdout |-> ""]

\* A call in progress: rest is what the stub will return to the next execute
\* calls, cmds the commands passed to it so far.  A reply adds how the call
\* ended: kind "return" or "raise"; val the Python value returned ("True",
\* "False", "None", "str" with the text in text, "json", "dict" with the
\* dictionary in dict) or the exception raised; own tells whether the
\* operation's own command, the one after its guards, was executed, and ownres
\* is that command's result.
Reply(rest, cmds) ==
    [kind |-> "return", val |-> "None", text |-> "", dict |-> <<>>,
     rest |-> rest, cmds |-> cmds, own |-> FALSE, ownres |-> NoResult]

Start(script) == [rest |-> script, cmds |-> <<>>]

After(e) == [rest |-> e.rest, cmds |-> e.cmds]

\* The reply of an operation that ends where a guard call ended.
Guard(e, val) == [e EXCEPT !.val = val, !.own = FALSE, !.ownres = NoResult]

\* ------------------------------------------------------------------ RemoteDirActions
\* The branch every RemoteDirActions operation takes on its command's result.
dir_outcome_lenient(r) ==
    IF r.completion
    THEN IF r.success THEN "pass" ELSE "fail"
    ELSE "raise"

dir_outcome(r) ==
    IF r.completion
    THEN IF r.success THEN "pass"
         ELSE IF r.errors THEN "raise"
         ELSE "fail"
    ELSE "raise"

\* execute(command) followed by that branch: Basic.bpass gives passval,
\* Basic.bfail or Basic.nfail failval.
dir_own(command, st, passval, failval) ==
    LET r == Head(st.rest)
        k == dir_outcome(r)
        base == [Reply(Tail(st.rest), Append(st.cmds, command)) EXCEPT
                    !.own = TRUE, !.ownres = r]
    IN CASE k = "pass"  -> [base EXCEPT !.val = passval]
         [] k = "raise" -> [base EXCEPT !.kind = "raise", !.val = "RemoteExecuteException"]
         [] OTHER       -> [base EXCEPT !.val = failval]

dir_exists(directory, st) ==
    dir_own("if [ -e \"" \o directory \o "\" ]; then exit 0; else exit 1; fi",
            st, "True", "False")

dir_isdir(directory, st) ==
    LET e == dir_exists(directory, st) IN
    IF e.kind = "raise" THEN Guard(e, e.val)
    ELSE IF e.val # "True" THEN Guard(e, "False")
    ELSE dir_own("if [ -d \"" \o directory \o "\" ]; then exit 0; else exit 1; fi",
                 After(e), "True", "False")

dir_create(directory, st) ==
    LET i == dir_isdir(directory, st) IN
    IF i.kind = "raise" THEN Guard(i, i.val)
    ELSE IF i.val = "True" THEN Guard(i, "True")
    ELSE dir_own("mkdir -p \"" \o directory \o "\"", After(i), "True", "False")

dir_delete_unguarded(directory, st) ==
    dir_own("rm -rf " \o directory, st, "True", "False")

dir_delete(directory, st) ==
    LET e == dir_exists(directory, st) IN
    IF e.kind = "raise" THEN Guard(e, e.val)
    ELSE IF e.val # "True" THEN Guard(e, "True")
    ELSE dir_own("rm -rf " \o directory, After(e), "True", "False")

dir_copy(source_dir, destination_dir, st) ==
    LET e == dir_exists(source_dir, st) IN
    IF e.kind = "raise" THEN Guard(e, e.val)
    ELSE IF e.val # "True" THEN Guard(e, "False")
    ELSE LET c == dir_create(destination_dir, After(e)) IN
         IF c.kind = "raise" THEN Guard(c, c.val)
         ELSE dir_own("cp -r " \o source_dir \o "/* " \o destination_dir,
                      After(c), "True", "False")

\* --exclude='<name>' for every name to keep, separated by blanks.
exception_args(exceptions) ==
    join(" ", [i \in 1..Len(exceptions) |-> "--exclude='" \o exceptions[i] \o "'"])

dir_remove(directory, exceptions, st) ==
    LET e == dir_exists(directory, st) IN
    IF e.kind = "raise" THEN Guard(e, e.val)
    ELSE IF e.val # "True" THEN Guard(e, "True")
    ELSE dir_own("cd " \o directory \o " && rm -rf ./* " \o exception_args(exceptions),
                 After(e), "True", "False")

\* ------------------------------------------------------------------ RemoteFileActions
\* exists and isfile after execute: a result without success raises, and the
\* answer is whether the command printed 0.
file_probe_lenient(command, st) ==
    LET r == Head(st.rest)
        base == [Reply(Tail(st.rest), Append(st.cmds, command)) EXCEPT
                    !.own = TRUE, !.ownres = r]
    IN IF ~r.completion
       THEN [base EXCEPT !.kind = "raise", !.val = "RemoteExecuteException"]
       ELSE IF r.success /\ r.stdout = "0" THEN [base EXCEPT !.val = "True"]
       ELSE [base EXCEPT !.val = "False"]

file_probe(command, st) ==
    LET r == Head(st.rest)
        base == [Reply(Tail(st.rest), Append(st.cmds, command)) EXCEPT
                    !.own = TRUE, !.ownres = r]
    IN IF ~r.success
       THEN [base EXCEPT !.kind = "raise", !.val = "RemoteExecuteException"]
       ELSE IF r.stdout = "0" THEN [base EXCEPT !.val = "True"]
       ELSE [base EXCEPT !.val = "False"]

file_exists(filepath, st) ==
    file_probe("if [ -e \"" \o filepath \o "\" ]; then echo 0; else echo 1; fi", st)

file_isfile(filepath, st) ==
    LET e == file_exists(filepath, st) IN
    IF e.kind = "raise" THEN Guard(e, e.val)
    ELSE IF e.val # "True" THEN Guard(e, "False")
    ELSE file_probe("if [ -f \"" \o filepath \o "\" ]; then echo 0; else echo 1; fi",
                    After(e))

\* remove, read and follow after execute: a result without success is logged,
\* and raises only if it did not complete.
file_own(command, st) ==
    LET r == Head(st.rest)
        base == [Reply(Tail(st.rest), Append(st.cmds, command)) EXCEPT
                    !.own = TRUE, !.ownres = r]
    IN IF ~r.success /\ ~r.completion
       THEN [base EXCEPT !.kind = "raise", !.val = "RemoteExecuteException"]
       ELSE base

file_remove(filepath, st) ==
    LET e == file_exists(filepath, st) IN
    IF e.kind = "raise" THEN Guard(e, e.val)
    ELSE IF e.val # "True" THEN Guard(e, "True")
    ELSE LET o == file_own("rm -f " \o filepath, After(e)) IN
         IF o.kind = "raise" THEN o
         ELSE IF o.ownres.success THEN [o EXCEPT !.val = "True"]
         ELSE [o EXCEPT !.val = "False"]

\* The file contents the stub prints, and those of them json.loads accepts.
Contents == {"", "hello", "{\"key\": \"value\"}"}
JsonTexts == {"{\"key\": \"value\"}"}

file_read(filepath, st) ==
    LET e == file_exists(filepath, st) IN
    IF e.kind = "raise" THEN Guard(e, e.val)
    ELSE IF e.val # "True" THEN [Guard(e, "str") EXCEPT !.text = ""]
    ELSE LET o == file_own("cat " \o filepath, After(e)) IN
         IF o.kind = "raise" THEN o
         ELSE IF o.ownres.success
         THEN IF o.ownres.stdout \in JsonTexts
              THEN [o EXCEPT !.val = "json", !.text = o.ownres.stdout]
              ELSE [o EXCEPT !.val = "str", !.text = o.ownres.stdout]
         ELSE [o EXCEPT !.val = "str", !.text = ""]

file_follow(symlink_target_path, st) ==
    LET e == file_exists(symlink_target_path, st) IN
    IF e.kind = "raise" THEN Guard(e, e.val)
    ELSE IF e.val # "True" THEN [Guard(e, "str") EXCEPT !.text = ""]
    ELSE LET o == file_own("readlink -f \"" \o symlink_target_path \o "\"", After(e)) IN
         IF o.kind = "raise" THEN o
         ELSE IF o.ownres.success
         THEN [o EXCEPT !.val = "str", !.text = o.ownres.stdout]
         ELSE [o EXCEPT !.val = "str", !.text = ""]

\* ------------------------------------------------------------------ RemoteDirActions.list
\* Values of the dictionary list returns: Python ints and strs.
IntVal(n) == [kind |-> "int", n |-> n, s |-> ""]
StrVal(s) == [kind |-> "str", n |-> 0, s |-> s]

\* directory_contents[key] = value
dict_set(d, key, value) == (key :> value) @@ d

\* The entry of a line that is not a symbolic link.
regular_entry_ninth(directory, item_info) ==
    [key |-> os_path_join(directory, item_info[9]), value |-> IntVal(int(item_info[5]))]

regular_entry(directory, item_info) ==
    [key |-> os_path_join(directory, item_info[Len(item_info)]),
     value |-> IntVal(int(item_info[5]))]

\* The loop over the lines of the listing, from line i on; acc is the reply
\* built so far, with the dictionary in dict.
RECURSIVE list_items(_, _, _, _)
list_items(directory, contents, i, acc) ==
    IF i > Len(contents) \/ acc.kind = "raise" THEN acc
    ELSE LET item_info == split(contents[i]) IN
         IF Len(item_info) < 9
         THEN list_items(directory, contents, i + 1, acc)
         ELSE IF startswith(item_info[1], "l")
         THEN LET symlink_target_path == item_info[Len(item_info)]
                  size == file_follow(symlink_target_path, After(acc))
              IN IF size.kind = "raise"
                 THEN [acc EXCEPT !.kind = "raise", !.val = size.val,
                                  !.rest = size.rest, !.cmds = size.cmds]
                 ELSE list_items(directory, contents, i + 1,
                        [acc EXCEPT !.rest = size.rest, !.cmds = size.cmds,
                                    !.dict = dict_set(@, symlink_target_path,
                                                      StrVal(size.text))])
         ELSE IF ~IsDigits(item_info[5])
         THEN [acc EXCEPT !.kind = "raise", !.val = "ValueError"]
         ELSE LET entry == regular_entry(directory, item_info) IN
              list_items(directory, contents, i + 1,
                         [acc EXCEPT !.dict = dict_set(@, entry.key, entry.value)])

dir_list(directory, st) ==
    LET e == dir_exists(directory, st) IN
    IF e.kind = "raise" THEN Guard(e, e.val)
    ELSE IF e.val # "True" THEN Guard(e, "None")
    ELSE LET o == dir_own("ls -l " \o directory, After(e), "dict", "None") IN
         IF o.kind = "raise" \/ o.val # "dict" THEN o
         ELSE list_items(directory, split_on(strip(o.ownres.stdout), "\n"), 1, o)

\* ------------------------------------------------------------------ stubbed execute: inputs
Dirs == {"/data", "/srv/"}
Destination == "/backup"
Paths == {"/data/file.txt"}
Keep == {<<>>, <<"keep.txt">>}

\* Prepared results for n execute calls whose stdout is not read.
FlagScripts(n) == [1..n -> { MockResult(f, "") : f \in MockFlags }]

\* Prepared results for the probes of RemoteFileActions, which print 0 or 1.
ProbeResults == { MockResult(f, out) : f \in MockFlags, out \in {"0", "1"} }

\* Lines `ls -l` prints, each with what it shows: a regular entry (kind "file")
\* with its name's last blank-separated word and its size, a symbolic link
\* with its target, or a line of fewer than 9 fields.
LsTable ==
    { [text |-> "-rw-r--r-- 1 user group 1024 May 12 10:30 file.txt",
       kind |-> "file", name |-> "file.txt", size |-> 1024],
      [text |-> "drwxr-xr-x   2 user group 4096 May 12  2023 sub",
       kind |-> "file", name |-> "sub", size |-> 4096],
      [text |-> "-rw-r--r-- 1 user group 7 May 12 10:30 my notes.txt",
       kind |-> "file", name |-> "notes.txt", size |-> 7],
      [text |-> "lrwxrwxrwx 1 user group 9 May 12 10:30 link -> target",
       kind |-> "link", name |-> "target", size |-> 9],
      [text |-> "total 8",
       kind |-> "short", name |-> "8", size |-> 0],
      [text |-> "-rw-r--r-- 1 user group 12 May 12 README",
       kind |-> "short", name |-> "README", size |-> 12] }

\* A listing has at most MaxLines lines, all different.
MaxLines == 2

Listings ==
    UNION { { ls \in [1..n -> LsTable] : \A i, j \in 1..n : ls[i] = ls[j] => i = j } :
            n \in 0..MaxLines }

ListingText(ls) == join("\n", [i \in 1..Len(ls) |-> ls[i].text])

NumLinks(ls) == Cardinality({ i \in 1..Len(ls) : ls[i].kind = "link" })

\* Prepared results for the two commands follow runs on each symbolic link:
\* its existence probe and readlink.
FollowPairs ==
    { <<p, MockResult(f, IF f.success THEN "/data/target" ELSE "")>> :
        p \in { MockResult(f, out) : f \in { g \in MockFlags : g.completion /\ ~g.errors },
                                     out \in {"0", "1"} },
        f \in MockFlags }

RECURSIVE Flatten(_)
Flatten(pairs) == IF Len(pairs) = 0 THEN <<>> ELSE Head(pairs) \o Flatten(Tail(pairs))

FollowScripts(k) == { Flatten(ps) : ps \in [1..k -> FollowPairs] }

Passes(f) == f.completion /\ f.success

\* ------------------------------------------------------------------ stubbed execute: actions
Called(op, directory, script, lines, out) ==
    act' = [op |-> op, dir |-> directory, script |-> script, lines |-> lines, out |-> out]

DirExists ==
    /\ act.op = "none"
    /\ \E d \in Dirs, s \in FlagScripts(1) :
         Called("dir_exists", d, s, <<>>, dir_exists(d, Start(s)))
    /\ UNCHANGED <<connVars, probe>>

DirIsdir ==
    /\ act.op = "none"
    /\ \E d \in Dirs, s \in FlagScripts(2) :
         Called("dir_isdir", d, s, <<>>, dir_isdir(d, Start(s)))
    /\ UNCHANGED <<connVars, probe>>

DirCreate ==
    /\ act.op = "none"
    /\ \E d \in Dirs, s \in FlagScripts(3) :
         Called("dir_create", d, s, <<>>, dir_create(d, Start(s)))
    /\ UNCHANGED <<connVars, probe>>

DirDelete ==
    /\ act.op = "none"
    /\ \E d \in Dirs, s \in FlagScripts(2) :
         Called("dir_delete", d, s, <<>>, dir_delete(d, Start(s)))
    /\ UNCHANGED <<connVars, probe>>

DirCopy ==
    /\ act.op = "none"
    /\ \E d \in Dirs, s \in FlagScripts(5) :
         Called("dir_copy", d, s, <<>>, dir_copy(d, Destination, Start(s)))
    /\ UNCHANGED <<connVars, probe>>

DirRemove ==
    /\ act.op = "none"
    /\ \E d \in Dirs, x \in Keep, s \in FlagScripts(2) :
         Called("dir_remove", d, s, <<>>, dir_remove(d, x, Start(s)))
    /\ UNCHANGED <<connVars, probe>>

\* list: the stub answers the existence probe (e), `ls -l` (l, printing the
\* listing ls) and the commands of follow for each symbolic link (fs).
DirList ==
    /\ act.op = "none"
    /\ \E d \in Dirs, e \in MockFlags, l \in MockFlags, ls \in Listings :
         /\ ~(Passes(e) /\ Passes(l)) => ls = <<>>
         /\ ~Passes(e) => Passes(l)
         /\ \E fs \in FollowScripts(NumLinks(ls)) :
              LET s == <<MockResult(e, ""), MockResult(l, ListingText(ls))>> \o fs IN
              Called("dir_list", d, s, ls, dir_list(d, Start(s)))
    /\ UNCHANGED <<connVars, probe>>

FileExists ==
    /\ act.op = "none"
    /\ \E p \in Paths, r \in ProbeResults :
         Called("file_exists", p, <<r>>, <<>>, file_exists(p, Start(<<r>>)))
    /\ UNCHANGED <<connVars, probe>>

FileIsfile ==
    /\ act.op = "none"
    /\ \E p \in Paths, r \in ProbeResults, q \in ProbeResults :
         Called("file_isfile", p, <<r, q>>, <<>>, file_isfile(p, Start(<<r, q>>)))
    /\ UNCHANGED <<connVars, probe>>

FileRemove ==
    /\ act.op = "none"
    /\ \E p \in Paths, r \in ProbeResults, f \in MockFlags :
         LET s == <<r, MockResult(f, "")>> IN
         Called("file_remove", p, s, <<>>, file_remove(p, Start(s)))
    /\ UNCHANGED <<connVars, probe>>

FileRead ==
    /\ act.op = "none"
    /\ \E p \in Paths, r \in ProbeResults, f \in MockFlags, c \in Contents :
         LET s == <<r, MockResult(f, c)>> IN
         Called("file_read", p, s, <<>>, file_read(p, Start(s)))
    /\ UNCHANGED <<connVars, probe>>

FileFollow ==
    /\ act.op = "none"
    /\ \E p \in Paths, s \in FollowScripts(1) :
         Called("file_follow", p, s, <<>>, file_follow(p, Start(s)))
    /\ UNCHANGED <<connVars, probe>>

\* ------------------------------------------------------------------ RemoteFileActions.write
\* Decimal text of a natural number, as json.dumps writes an int.
Digits == <<"0", "1", "2", "3", "4", "5", "6", "7", "8", "9">>

RECURSIVE int_str(_)
int_str(n) ==
    IF n < 10 THEN Digits[n + 1]
    ELSE int_str(n \div 10) \o Digits[(n % 10) + 1]

\* The data handed to write: a str, a list of ints, a dict of str to str, or a
\* list holding an object json.dumps cannot serialize.
Datas ==
    { [type |-> "str",  text |-> "hello", items |-> <<>>, serializable |-> TRUE],
      [type |-> "str",  text |-> "", items |-> <<>>, serializable |-> TRUE],
      [type |-> "list", text |-> "", items |-> <<1, 20>>, serializable |-> TRUE],
      [type |-> "list", text |-> "", items |-> <<>>, serializable |-> TRUE],
      [type |-> "dict", text |-> "", items |-> <<<<"key", "value">>>>, serializable |-> TRUE],
      [type |-> "list", text |-> "", items |-> <<7>>, serializable |-> FALSE] }

\* json.dumps(data) with the default separators, for serializable data.
json_dumps(data) ==
    IF data.type = "list"
    THEN "[" \o join(", ", [i \in 1..Len(data.items) |-> int_str(data.items[i])]) \o "]"
    ELSE "{" \o join(", ", [i \in 1..Len(data.items) |->
                               "\"" \o data.items[i][1] \o "\": \"" \o data.items[i][2] \o "\""])
             \o "}"

\* What the local file system does while the data is staged: "ok";
\* "create_fails", NamedTemporaryFile raises OSError; "write_fails", tmp.write
\* raises OSError after the file was created.
Staging == {"ok", "create_fails", "write_fails"}

\* What RemoteCommand.scp does: it returns a result, of which write reads
\* completion and success, or it raises (see ScpCall).
ScpReplies ==
    { [raised |-> "none", completion |-> TRUE,  success |-> TRUE],
      [raised |-> "none", completion |-> TRUE,  success |-> FALSE],
      [raised |-> "none", completion |-> FALSE, success |-> FALSE],
      [raised |-> "SCPException",   completion |-> FALSE, success |-> FALSE],
      [raised |-> "AttributeError", completion |-> FALSE, success |-> FALSE] }

\* How a call of write ended.  cause is the exception raised inside the try
\* block ("none" if there was none), kind and val what the caller gets; created
\* counts the temporary files made, removed the os.remove calls, transfers the
\* scp calls; staged is the text written to the file.
WriteReply ==
    [kind |-> "return", val |-> "None", cause |-> "none", created |-> 0, removed |-> 0,
     transfers |-> 0, staged |-> ""]

\* The finally clause: `if tmp_file:` on a name that was never bound raises
\* UnboundLocalError, which replaces the exception in flight; otherwise the file
\* is removed and the pending return or exception goes on.
write_finally(r, bound) ==
    IF bound
    THEN [r EXCEPT !.removed = @ + 1]
    ELSE [r EXCEPT !.kind = "raise", !.val = "UnboundLocalError"]

file_write(filepath, data, mode, staging, scp) ==
    IF mode # "w"
    THEN [WriteReply EXCEPT !.kind = "raise", !.val = "RemoteExecuteException"]
    ELSE IF ~data.serializable
    THEN write_finally([WriteReply EXCEPT !.kind = "raise", !.val = "TypeError",
                                          !.cause = "TypeError"], FALSE)
    ELSE IF staging = "create_fails"
    THEN write_finally([WriteReply EXCEPT !.kind = "raise", !.val = "OSError",
                                          !.cause = "OSError"], FALSE)
    ELSE IF staging = "write_fails"
    THEN write_finally([WriteReply EXCEPT !.kind = "raise", !.val = "OSError",
                                          !.cause = "OSError", !.created = 1], FALSE)
    ELSE LET text == IF data.type \in {"list", "dict"} THEN json_dumps(data) ELSE data.text
             r == [WriteReply EXCEPT !.created = 1, !.staged = text, !.transfers = 1]
         IN write_finally(
              IF scp.raised # "none"
              THEN [r EXCEPT !.kind = "raise", !.val = scp.raised, !.cause = scp.raised]
              ELSE IF scp.completion
              THEN IF scp.success THEN [r EXCEPT !.val = "True"]
                   ELSE [r EXCEPT !.val = "False"]
              ELSE [r EXCEPT !.kind = "raise", !.val = "RemoteExecuteException",
                             !.cause = "RemoteExecuteException"],
              TRUE)

\* write(filepath, data, ssh, mode) with the local file system and scp stubbed.
FileWrite ==
    /\ act.op = "none"
    /\ \E p \in Paths, data \in Datas, mode \in {"w", "a"}, staging \in Staging,
          scp \in ScpReplies :
         act' = [op |-> "file_write", dir |-> p, script |-> <<>>, lines |-> <<>>,
                 data |-> data, mode |-> mode, staging |-> staging, scp |-> scp,
                 out |-> file_write(p, data, mode, staging, scp)]
    /\ UNCHANGED <<connVars, probe>>

\* ------------------------------------------------------------------ universal RemoteCommand
\* The per-command-connection variant (universal/remote): RemoteDirActions.exists
\* builds a RemoteCommand for its probe and calls execute, which opens its own
\* connection, sends the command and waits for the exit status.

\* The command object before execute: the dataclass defaults.
UCommand(command, command_id) ==
    [command |-> command, command_id |-> command_id, stdout |-> "", stderr |-> "",
     exit_code |-> -1, success |-> FALSE]

\* What the probe's remote process does: its exit status and its output.
UPlans == { [status |-> x, out |-> "", err |-> e] : x \in {0, 1}, e \in ErrOutputs }

UConnect == {"ok", "AuthenticationException", "SSHException"}

UConnectError(o) ==
    IF o = "AuthenticationException" THEN "Failed to log in to remote server."
    ELSE "SSH connection error: " \o ExcText(o)

UWaitError(e) ==
    CASE e = "SSHException" -> "SSH error while waiting for command to finish: " \o ExcText(e)
      [] e = "timeout"      -> "Socket timed out while waiting for command to finish."
      [] OTHER              -> "Socket error while waiting for command to finish: " \o ExcText(e)

\* RemoteCommand._set_error
u_set_error(cmd, description) == [cmd EXCEPT !.stderr = description, !.success = FALSE]

\* execute after the wait: the streams are read, exit_code is the value the
\* loop left in exit_status, and the three error tests are made.
u_finish(cmd, plan, exit_status) ==
    LET c == [cmd EXCEPT !.stdout = strip(plan.out), !.stderr = strip(plan.err),
                         !.exit_code = exit_status]
    IN IF Contains(upper(c.stdout), "ERROR") THEN u_set_error(c, "Command failure in stdout.")
       ELSE IF Contains(upper(c.stderr), "ERROR") THEN u_set_error(c, "Command failure in stderr.")
       ELSE IF c.exit_code # 0 THEN u_set_error(c, "Command exited with error status.")
       ELSE [c EXCEPT !.success = TRUE]

\* RemoteDirActions.exists after execute returned ret.
u_exists_answer(ret, cmd) == ret /\ cmd.exit_code = 0

UDone(directory, cmd, plan, ret, first) ==
    [op |-> "u_exists", dir |-> directory, script |-> <<>>, lines |-> <<>>,
     cmd |-> cmd, plan |-> plan, ret |-> ret, first |-> first,
     answer |-> u_exists_answer(ret, cmd)]

\* exists(directory, authentication) up to the dispatch of its probe: execute
\* connects (o), and on a failure returns False at once.
UExistsCall ==
    /\ act.op = "none"
    /\ \E d \in Dirs, o \in UConnect :
         LET cmd == UCommand("if [ -d \"" \o d \o "\" ]; then exit 0; else exit 1; fi",
                             "check_directory_exists")
         IN IF o # "ok"
            THEN act' = UDone(d, u_set_error(cmd, UConnectError(o)), NoPlan, FALSE, FALSE)
            ELSE \E p \in UPlans :
                 act' = [op |-> "u_wait", dir |-> d, script |-> <<>>, lines |-> <<>>,
                         cmd |-> cmd, plan |-> p, ready |-> FALSE, exit_status |-> -1,
                         polls |-> 0]
    /\ UNCHANGED <<connVars, probe>>

\* The remote process ends and posts its exit status.
URemoteExit ==
    /\ act.op = "u_wait" /\ ~act.ready
    /\ act' = [act EXCEPT !.ready = TRUE]
    /\ UNCHANGED <<connVars, probe>>

\* One test of the loop condition.  Status not ready: sleep, then
\* recv_exit_status(), which blocks until the process has ended and gives its
\* status.  Status ready: the loop ends, and execute finishes and returns True.
UPoll ==
    /\ act.op = "u_wait"
    /\ IF ~act.ready
       THEN act' = [act EXCEPT !.ready = TRUE, !.exit_status = act.plan.status,
                               !.polls = 1]
       ELSE act' = UDone(act.dir, u_finish(act.cmd, act.plan, act.exit_status),
                         act.plan, TRUE, act.polls = 0)
    /\ UNCHANGED <<connVars, probe>>

\* recv_exit_status raises a transport exception: execute returns False.
UTransportFail(e) ==
    /\ act.op = "u_wait" /\ ~act.ready
    /\ act' = UDone(act.dir, u_set_error(act.cmd, UWaitError(e)), act.plan, FALSE, FALSE)
    /\ UNCHANGED <<connVars, probe>>

\* ------------------------------------------------------------------ probes on a connection
\* What RemoteFileActions reads of the result RemoteCommand.execute returned.
Seen(r) ==
    [completion |-> r.completion, success |-> r.success, errors |-> r.errors,
     stdout |-> r.stdout]

\* What the remote process of a probe does: it prints 0 or 1 and exits; -1 when
\* the server supplies no exit status.
ProbeBehaviour == [status : Statuses, out : {"0\n", "1\n"}, err : {""}]

\* A call that ended by an exception that is not RemoteFileActions' own.
Escaped(exc) == [Reply(<<>>, <<>>) EXCEPT !.kind = "raise", !.val = exc]

\* RemoteFileActions.exists(filepath, ssh) and isfile(filepath, ssh) on the
\* connection itself, through RemoteCommand.execute and exec_command: o is the
\* handshake's outcome, made only if conn is None.  When the probe is sent, the
\* wait for its exit status is part of the call: it ends with the status and the
\* output of the remote process (p), or with a transport exception (w), or it
\* does not end (status -1).  isfile's second execute runs on a connection that
\* holds a client, so its connect() returns False and nothing is sent.
FileProbeCall(op, filepath) ==
    /\ Alive /\ pc = "idle" /\ calls < MaxCalls
    /\ calls' = calls + 1
    /\ \E o \in Outcomes :
       LET c == connect(o)
           command == "if [ -e \"" \o filepath \o "\" ]; then echo 0; else echo 1; fi"
           isfile == "if [ -f \"" \o filepath \o "\" ]; then echo 0; else echo 1; fi"
           info == [NoLast EXCEPT !.op = op, !.hs = c.hs, !.had = (conn # 0),
                                  !.ret = c.ret]
           call(script) == IF op = "file_exists"
                           THEN file_exists(filepath, Start(script))
                           ELSE file_isfile(filepath, Start(script))
           ended(i, tup, res, script) ==
               LET out == call(script) IN
               /\ last' = [i EXCEPT !.tup = tup, !.res = res,
                                    !.raised = IF out.kind = "raise" THEN out.val
                                               ELSE "none"]
               /\ Called(op, filepath, script, <<>>, out)
       IN
       /\ conn' = c.conn
       /\ clients' = c.clients
       /\ handshakes' = c.handshakes
       /\ authed' = c.authed
       /\ IF c.raised # "none"
          THEN \* the handshake's exception leaves exec_command, execute and the probe
               /\ error_message' = c.error_message
               /\ last' = [info EXCEPT !.raised = c.raised]
               /\ Called(op, filepath, <<>>, <<>>, Escaped(c.raised))
               /\ UNCHANGED <<dispatched, pc, cur, chan>>
          ELSE IF ~c.ret
          THEN /\ error_message' = c.error_message
               /\ LET tup == not_connected(c.error_message)
                      res == execute_result(command, "file_exists", tup)
                  IN ended(info, tup, res, <<Seen(res)>>)
               /\ UNCHANGED <<dispatched, pc, cur, chan>>
          ELSE \/ \E d \in Transport :
                  /\ error_message' = WaitError(d)
                  /\ LET tup == <<"", "", fold_stderr("", WaitError(d)), -1>>
                         res == execute_result(command, "file_exists", tup)
                     IN ended(info, tup, res, <<Seen(res)>>)
                  /\ UNCHANGED <<dispatched, pc, cur, chan>>
               \/ \E w \in Transport :
                  /\ error_message' = WaitError(w)
                  /\ dispatched' = dispatched + 1
                  /\ last' = [info EXCEPT !.sent = TRUE, !.raised = "TypeError"]
                  /\ Called(op, filepath, <<>>, <<>>, Escaped("TypeError"))
                  /\ UNCHANGED <<pc, cur, chan>>
               \/ \E p \in ProbeBehaviour :
                  /\ error_message' = c.error_message
                  /\ dispatched' = dispatched + 1
                  /\ IF p.status = -1
                     THEN /\ pc' = "wait"
                          /\ cur' = [command |-> command, command_id |-> "file_exists",
                                     hs |-> c.hs, had |-> (conn # 0), polls |-> 0]
                          /\ chan' = [ready |-> TRUE, plan |-> p]
                          /\ last' = [info EXCEPT !.op = "pending", !.sent = TRUE]
                          /\ Called(op, filepath, <<>>, <<>>,
                                    [Reply(<<>>, <<command>>) EXCEPT !.kind = "pending"])
                     ELSE /\ LET tup == <<"<stdin>", strip(p.out),
                                          fold_stderr(strip(p.err), c.error_message),
                                          p.status>>
                                 res == execute_result(command, "file_exists", tup)
                                 second == execute_result(isfile, "isfile",
                                               not_connected(c.error_message))
                             IN ended([info EXCEPT !.sent = TRUE, !.observed = TRUE],
                                      tup, res, <<Seen(res), Seen(second)>>)
                          /\ UNCHANGED <<pc, cur, chan>>
    /\ UNCHANGED <<auth, ctor, probe>>

Next ==
    \/ Construct
    \/ ConnectCall
    \/ \E c \in Commands, i \in CommandIds : ExecuteCall(c, i)
    \/ RemoteExit
    \/ PollSleep
    \/ PollRecv
    \/ \E e \in Transport : TransportFail(e)
    \/ \E s \in Sources, t \in Destinations, put \in BOOLEAN : ScpCall(s, t, put)
    \/ \E op \in {"file_exists", "file_isfile"}, p \in Paths : FileProbeCall(op, p)

Spec == Init /\ [][Next]_vars

\* The caller takes the outcome; the next call starts afresh.
ActReturn ==
    /\ act.op \notin {"none", "u_wait"}
    /\ act' = NoAct
    /\ UNCHANGED <<connVars, probe>>

InitActions ==
    /\ auth \in AuthSet
    /\ ctor = "none"
    /\ conn = 0
    /\ error_message = ""
    /\ clients = 0
    /\ handshakes = 0
    /\ authed = {}
    /\ dispatched = 0
    /\ pc = "idle"
    /\ cur = NoCur
    /\ chan = NoChan
    /\ calls = 0
    /\ last = NoLast
    /\ probe = NoProbe
    /\ act = NoAct

NextActions ==
    \/ \E c \in Commands, i \in CommandIds : ExecuteOnStub(c, i)
    \/ DirExists
    \/ DirIsdir
    \/ DirCreate
    \/ DirDelete
    \/ DirList
    \/ DirCopy
    \/ DirRemove
    \/ FileExists
    \/ FileIsfile
    \/ FileRemove
    \/ FileRead
    \/ FileFollow
    \/ FileWrite
    \/ UExistsCall
    \/ URemoteExit
    \/ UPoll
    \/ \E e \in Transport : UTransportFail(e)
    \/ ActReturn

SpecActions == InitActions /\ [][NextActions]_vars

\* ------------------------------------------------------------------ properties
Returned(op) == last.op = op /\ last.raised = "none"

HasErrorText(s) == Contains(upper(s), "ERROR")

\* The representation test_repr expects, and its like for the second endpoint.
ExpectedRepr(a) ==
    IF a.remote_server = "example.com"
    THEN "SSHConfig(remote_server=example.com,ssh_user=user,ssh_pswd=<private>,ssh_port=22,remote_dir=/home/user)"
    ELSE "SSHConfig(remote_server=localhost,ssh_user=root,ssh_pswd=<private>,ssh_port=2222,remote_dir=None)"

\* C1: every result returned by RemoteCommand.execute or RemoteCommand.scp has
\* success = true only with completion = true, exit_code = 0 and errors = false.
C1_SuccessImplies ==
    (Returned("execute") \/ Returned("scp")) =>
        (last.res.success =>
            last.res.completion /\ last.res.exit_code = 0 /\ ~last.res.errors)

\* A transfer over a live session that returned success.
C1_Witness == Returned("scp") /\ last.res.success

C3_ErrorsIffErrorText ==
    probe.done =>
        /\ probe.r.errors <=>
             (HasErrorText(probe.before.stdout) \/ HasErrorText(probe.before.stderr))
        /\ probe.r.errors <=>
             (probe.before.stdout \in TextWithError \/ probe.before.stderr \in TextWithError)

\* Mixed-case 'Error' on stderr alone sets errors.
C3_Witness ==
    /\ probe.done
    /\ probe.before.stdout = "hello"
    /\ probe.before.stderr = "An Error occurred"
    /\ probe.r.errors

\* C4 as stated: on a connection constructed with authentication succeeding,
\* execute of `echo hello` (exit status 0, "hello" on stdout, nothing on stderr)
\* returns stdout = "hello", exit_code = 0, completion, no errors and success.
C4_Original ==
    (Returned("execute") /\ ctor = "ok" /\ last.res.command = "echo hello") =>
        /\ last.res.stdout = "hello"
        /\ last.res.exit_code = 0
        /\ last.res.completion
        /\ ~last.res.errors
        /\ last.res.success

\* C5 as stated: connect() on a connection that already holds a session returns
\* True.
C5_Original == (Returned("connect") /\ last.had) => last.ret = TRUE

\* C6: while the connection holds a client no step makes a handshake, creates a
\* client or changes conn, and the connection never holds more than one session.
C6_OneSession ==
    /\ [][conn # 0 =>
            (conn' = conn /\ handshakes' = handshakes /\ clients' = clients)]_vars
    /\ [](authed \subseteq {conn} /\ Cardinality(authed) <= 1)

\* connect() called again on a connection whose only handshake succeeded.
C6_Witness ==
    /\ Returned("connect") /\ last.had
    /\ conn \in authed
    /\ handshakes = 1 /\ clients = 1

\* C7: when the handshake raises an authentication failure connect() does not
\* raise, returns False, leaves conn None and records a message that contains
\* "Failed to log in to remote server." and the endpoint's representation with
\* the password as <private>, never its value.
C7_AuthFailure ==
    (last.hs = "AuthenticationException" /\ last.op \in {"init", "connect", "execute"}) =>
        /\ last.raised = "none"
        /\ last.ret = FALSE
        /\ conn = 0
        /\ Contains(error_message, "Failed to log in to remote server.")
        /\ Contains(error_message, ExpectedRepr(auth))
        /\ ~Contains(error_message, auth.ssh_pswd)

\* A caller's connect() met an authentication failure.
C7_Witness ==
    /\ last.op = "connect" /\ last.hs = "AuthenticationException"
    /\ error_message # ""

\* C8 as stated: a handshake failing with an SSH error, socket error or socket
\* timeout makes connect() return False without raising, with conn None and a
\* message recorded; a non-null conn is always a usable session.
C8_Original ==
    /\ last.hs \in Transport =>
         (last.raised = "none" /\ last.ret = FALSE /\ conn = 0 /\ error_message # "")
    /\ conn # 0 => conn \in authed

\* C9: when authentication fails at construction and again at exec_command's
\* connect, no command is dispatched, exec_command returns ("", "", the error
\* message, -1), and execute returns, without raising, a result with success =
\* false, exit_code = -1 and the login failure text in stderr.
C9_AuthFailureExecute ==
    [][(/\ ctor = "AuthenticationException"
        /\ calls' = calls + 1
        /\ last'.op \in {"execute", "pending"}
        /\ last'.hs = "AuthenticationException")
       => /\ dispatched' = dispatched
          /\ pc' = "idle"
          /\ last'.op = "execute"
          /\ last'.raised = "none"
          /\ last'.tup = <<"", "", error_message', -1>>
          /\ last'.res.stdout = ""
          /\ last'.res.stderr = error_message'
          /\ Contains(last'.res.stderr, "Failed to log in to remote server.")
          /\ last'.res.exit_code = -1
          /\ ~last'.res.success]_vars

\* execute returned on a connection whose authentication failed both times.
C9_Witness ==
    /\ ctor = "AuthenticationException"
    /\ Returned("execute") /\ last.hs = "AuthenticationException"
    /\ dispatched = 0

\* C10 as stated: a result execute returns without an exit status of the remote
\* process having been observed has completion = false.
C10_Original ==
    (Returned("execute") /\ ~last.observed) => last.res.completion = FALSE

\* C11 as stated: a transport exception (SSH error, socket timeout, socket
\* error) raised after the command was dispatched, while waiting for its exit
\* status or reading its output, is caught, and execute returns, without
\* raising, a result with exit_code = -1 and a stderr that describes the failure.
C11_Original ==
    (last.op = "execute" /\ last.sent /\ ~last.observed) =>
        /\ last.raised = "none"
        /\ last.res.exit_code = -1
        /\ Contains(last.res.stderr, "while waiting for command to finish")

\* C12: execute is a function of the tuple exec_command returns: the result's
\* stdout, stderr and exit_code are the tuple's values, command and command_id
\* are the arguments, and completion = true; with exit status 0 and text that
\* contains "error" (in any letter case) on stdout or stderr, errors = true and
\* success = false; with exit status 0 and no such text on either stream,
\* success = true.
C12_ExecuteFromTuple ==
    act.op = "execute" =>
        /\ act.res.command = act.command
        /\ act.res.command_id = act.command_id
        /\ act.res.stdout = act.tup[2]
        /\ act.res.stderr = act.tup[3]
        /\ act.res.exit_code = act.tup[4]
        /\ act.res.completion
        /\ (act.tup[4] = 0 /\ (act.tup[2] \in TextWithError \/ act.tup[3] \in TextWithError))
             => (act.res.errors /\ ~act.res.success)
        /\ (act.tup[4] = 0 /\ act.tup[2] \in TextWithoutError /\ act.tup[3] \in TextWithoutError)
             => act.res.success

\* execute returned for a stub whose tuple is exit status 0, an empty stdout and
\* "error" on stderr.
C12_Witness ==
    /\ act.op = "execute"
    /\ act.tup[2] = "" /\ act.tup[3] = "error" /\ act.tup[4] = 0
    /\ act.res.errors /\ ~act.res.success /\ act.res.completion

C14_Original ==
    (last.op = "scp" /\ conn = 0) =>
        /\ last.raised = "none"
        /\ ~last.res.completion
        /\ ~last.res.success
        /\ Contains(last.res.stderr, "Failed to log in to remote server.")

DirOps == {"dir_exists", "dir_isdir", "dir_create", "dir_delete", "dir_list",
           "dir_copy", "dir_remove"}

Raised(o) == o.kind = "raise" /\ o.val = "RemoteExecuteException"

Answered(o, val) == o.kind = "return" /\ o.val = val

Affirmative(op) == IF op = "dir_list" THEN "dict" ELSE "True"

Negative(op) == IF op = "dir_list" THEN "None" ELSE "False"

C16_Original ==
    (act.op \in {"file_exists", "file_isfile"} /\ act.out.own) =>
        LET r == act.out.ownres IN
        /\ (r.completion /\ ~r.success /\ ~r.errors) => Answered(act.out, "False")
        /\ (r.completion /\ r.success) => Answered(act.out, "True")
        /\ ~r.completion => Raised(act.out)

\* C17 as stated: RemoteFileActions.remove, read and follow raise
\* RemoteExecuteException whenever their command (rm -f, cat, readlink -f)
\* completes with errors = true.
C17_Original ==
    (/\ act.op \in {"file_remove", "file_read", "file_follow"}
     /\ act.out.own
     /\ act.out.ownres.completion /\ act.out.ownres.errors)
    => Raised(act.out)

\* C18 as stated: create, when the path is not already a directory, raises
\* RemoteExecuteException when mkdir completes with success = false and
\* errors = false, returns True when mkdir completes with success, and raises
\* when mkdir does not complete.
C18_Original ==
    (act.op = "dir_create" /\ act.out.own) =>
        LET r == act.out.ownres IN
        /\ (r.completion /\ ~r.success /\ ~r.errors) => Raised(act.out)
        /\ (r.completion /\ r.success) => Answered(act.out, "True")
        /\ ~r.completion => Raised(act.out)

\* The path of an entry called name in directory d, written out for the
\* directories queried.
Joined(d, name) == (IF d = "/srv/" THEN "/srv/" ELSE "/data/") \o name

\* C19: a listing list returns has, for every line of `ls -l` with at least 9
\* fields that is not a symbolic link, an entry whose key is the queried
\* directory joined with the line's last field and whose value is the integer in
\* field index 4; it has no entry besides these and those of symbolic links, so
\* a line with fewer than 9 fields contributes none.
C19_RegularEntries ==
    (act.op = "dir_list" /\ Answered(act.out, "dict")) =>
        /\ \A i \in 1..Len(act.lines) :
             act.lines[i].kind = "file" =>
                /\ Joined(act.dir, act.lines[i].name) \in DOMAIN act.out.dict
                /\ act.out.dict[Joined(act.dir, act.lines[i].name)]
                     = IntVal(act.lines[i].size)
        /\ \A k \in DOMAIN act.out.dict :
             \E i \in 1..Len(act.lines) :
                \/ act.lines[i].kind = "file" /\ k = Joined(act.dir, act.lines[i].name)
                \/ act.lines[i].kind = "link" /\ k = act.lines[i].name

\* list of /data returned for a listing of the line of file.txt and a line of
\* fewer than 9 fields: {"/data/file.txt": 1024}.
C19_Witness ==
    /\ act.op = "dir_list" /\ act.dir = "/data" /\ Answered(act.out, "dict")
    /\ Len(act.lines) = 2
    /\ act.lines[1].kind = "short" /\ act.lines[2].name = "file.txt"
    /\ DOMAIN act.out.dict = {"/data/file.txt"}
    /\ act.out.dict["/data/file.txt"] = IntVal(1024)

\* C20 as stated, for links whose target exists and which readlink resolves: for
\* a line that is a symbolic link, the listing list returns has an entry under
\* the link's target, none under the link's name, and the entry's value is a
\* size obtained by following the link, not the size field of the line.
C20_Original ==
    (/\ act.op = "dir_list" /\ Answered(act.out, "dict")
     /\ \A j \in 3..Len(act.out.cmds) : Passes(act.script[j])
     /\ Len(act.out.cmds) = 2 + 2 * NumLinks(act.lines)) =>
        \A i \in 1..Len(act.lines) :
            act.lines[i].kind = "link" =>
                /\ act.lines[i].name \in DOMAIN act.out.dict
                /\ "link" \notin DOMAIN act.out.dict
                /\ Joined(act.dir, "link") \notin DOMAIN act.out.dict
                /\ act.out.dict[act.lines[i].name].kind = "int"

\* C21 as stated: list excludes broken symbolic links: a symbolic link whose
\* target does not exist (follow's existence probe prints 1, so that following
\* it yields no target) has no key in the dictionary list returns.
C21_Original ==
    (/\ act.op = "dir_list" /\ Answered(act.out, "dict")
     /\ NumLinks(act.lines) = 1
     /\ Len(act.out.cmds) = 3
     /\ act.script[3].success /\ act.script[3].stdout = "1") =>
        \A i \in 1..Len(act.lines) :
            act.lines[i].kind = "link" => act.lines[i].name \notin DOMAIN act.out.dict

\* The text write is expected to stage for each serializable datum.
ExpectedStaged(data) ==
    CASE data.type = "str" -> data.text
      [] data.type = "dict" -> "{\"key\": \"value\"}"
      [] data.items = <<>> -> "[]"
      [] OTHER -> "[1, 20]"

\* C22 as stated: every call of write that created a temporary file removes it
\* exactly once before it returns or raises; it returns True when the transfer
\* completed with success, False when it completed without success, and raises
\* RemoteExecuteException when it did not complete; the text staged is the
\* given string, or the JSON text of the given list or dict.
C22_Original ==
    (act.op = "file_write" /\ act.out.created > 0) =>
        /\ act.out.created = 1
        /\ act.out.removed = 1
        /\ act.out.transfers = 1 =>
             /\ act.out.staged = ExpectedStaged(act.data)
             /\ (act.scp.raised = "none" /\ act.scp.completion /\ act.scp.success)
                  => Answered(act.out, "True")
             /\ (act.scp.raised = "none" /\ act.scp.completion /\ ~act.scp.success)
                  => Answered(act.out, "False")
             /\ (act.scp.raised = "none" /\ ~act.scp.completion) => Raised(act.out)

\* C23 as stated: when staging fails before a temporary file exists (creating
\* the file or serializing the data raises), the caller receives that error,
\* not one raised by the cleanup and not RemoteExecuteException, and no
\* transfer is attempted.
C23_Original ==
    (act.op = "file_write" /\ act.out.cause # "none" /\ act.out.created = 0) =>
        /\ act.out.kind = "raise"
        /\ act.out.val = act.out.cause
        /\ act.out.transfers = 0

\* C24 as stated: after any connect() that establishes a session, be it the
\* constructor's, a caller's or exec_command's, the connection's error message
\* is empty, even when an earlier connect or command had recorded one.
C24_Original ==
    (last.op \in {"init", "connect", "pending"} /\ last.hs = "ok") => error_message = ""

\* C25 as stated: the result of a command that ran to its exit status, with no
\* failure during it, holds only that command's output: the text recorded for
\* an earlier failed connect or an earlier command is not in its stderr.
C25_Original ==
    (Returned("execute") /\ last.observed) =>
        /\ ~Contains(last.res.stderr, "Failed to log in to remote server.")
        /\ ~Contains(last.res.stderr, "while waiting for command to finish")

C27_Original ==
    [][/\ (pc = "wait" /\ ~chan.ready /\ last'.raised = "none") => pc' = "wait"
       /\ (pc = "wait" /\ chan.ready /\ last'.raised = "none") =>
             /\ pc' = "idle"
             /\ last'.op = "execute"
             /\ last'.res.exit_code = chan.plan.status]_vars

\* C28 as stated: in the per-command-connection variant, whenever execute
\* returns True the recorded exit_code is the status the remote process
\* posted, also when the status was available at the first poll; a probe that
\* exits 0 with no error text is recorded with success = true, and the
\* directory probe built on it answers True.
C28_Original ==
    (act.op = "u_exists" /\ act.ret) =>
        /\ act.cmd.exit_code = act.plan.status
        /\ (act.plan.status = 0 /\ act.plan.err = "") =>
              (act.cmd.success /\ act.answer)

\* The call dispatched a command that begins with prefix.
Dispatched(prefix) ==
    \E i \in 1..Len(act.out.cmds) : startswith(act.out.cmds[i], prefix)

\* A stubbed result that completed without success and without errors.
Declines(r) == r.completion /\ ~r.success /\ ~r.errors

OwnPrefix(op) ==
    CASE op = "dir_delete"  -> "rm -rf "
      [] op = "dir_remove"  -> "cd "
      [] op = "dir_list"    -> "ls -l "
      [] op = "dir_copy"    -> "cp -r "
      [] op = "dir_create"  -> "mkdir -p "
      [] op = "dir_isdir"   -> "if [ -d "
      [] op = "file_remove" -> "rm -f "
      [] op = "file_read"   -> "cat "
      [] OTHER              -> "readlink -f "

GuardAnswer(op) ==
    CASE op = "dir_list" -> "None"
      [] op = "dir_copy" -> "False"
      [] OTHER           -> "True"

\* C29: an operation dispatches its own command only after its guard probe, in
\* the same call, gave the required answer.  delete, remove, list and copy
\* dispatch rm -rf, cd && rm -rf, ls -l and cp -r only if the -e probe, their
\* first command, passed, and when it declined they return True, True, None and
\* False with no further command; create dispatches mkdir -p only if isdir
\* answered False; isdir dispatches its -d probe only if the -e probe passed;
\* RemoteFileActions.remove, read and follow dispatch rm -f, cat and readlink
\* only if the existence probe succeeded and printed 0.
C29_GuardFirst ==
    /\ act.op \in {"dir_delete", "dir_remove", "dir_list", "dir_copy"} =>
         /\ Dispatched(OwnPrefix(act.op)) =>
              (Passes(act.script[1]) /\ startswith(act.out.cmds[1], "if [ -e "))
         /\ Declines(act.script[1]) =>
              (Answered(act.out, GuardAnswer(act.op)) /\ Len(act.out.cmds) = 1)
    /\ act.op = "dir_create" =>
         (Dispatched(OwnPrefix(act.op)) =>
             \/ Declines(act.script[1]) /\ Len(act.out.cmds) = 2
             \/ Passes(act.script[1]) /\ Declines(act.script[2]) /\ Len(act.out.cmds) = 3)
    /\ act.op = "dir_isdir" =>
         (Dispatched(OwnPrefix(act.op)) =>
             (Passes(act.script[1]) /\ startswith(act.out.cmds[1], "if [ -e ")))
    /\ act.op \in {"file_remove", "file_read", "file_follow"} =>
         (Dispatched(OwnPrefix(act.op)) =>
             /\ act.script[1].success /\ act.script[1].stdout = "0"
             /\ startswith(act.out.cmds[1], "if [ -e "))

\* copy dispatched cp -r as its fifth command, after the -e probe of the source
\* and create's three commands for the destination.
C29_Witness ==
    /\ act.op = "dir_copy" /\ Dispatched("cp -r ")
    /\ Len(act.out.cmds) = 5 /\ Passes(act.script[1])

\* C30: driven end to end through RemoteCommand.execute on a RemoteConnection
\* whose authentication fails, RemoteFileActions.exists and isfile never return
\* a boolean: the call raises RemoteExecuteException after its one execute
\* call, and nothing is sent to the server.
C30_NeverAnswers ==
    (last.op \in {"file_exists", "file_isfile"} /\ last.hs = "AuthenticationException") =>
        /\ act.out.kind = "raise"
        /\ act.out.val = "RemoteExecuteException"
        /\ Len(act.out.cmds) = 1
        /\ ~last.sent
        /\ conn = 0

\* isfile was called on a connection whose authentication failed at
\* construction and failed again in the call, and the call raised.
C30_Witness ==
    /\ ctor = "AuthenticationException"
    /\ last.op = "file_isfile" /\ last.hs = "AuthenticationException"
    /\ act.op = "file_isfile" /\ act.out.kind = "raise"
    /\ HasErrorText(last.res.stderr) /\ last.res.exit_code = -1
====
